---- MODULE Spec2Model ----
(***************************************************************************)
(* A model of the practice-path generation engine of CP-GPT                *)
(* (backend/app/services/path_generator.py), of the endpoint that persists *)
(* a generated path (backend/app/api/v1/endpoints/paths.py) and of the     *)
(* topic skill estimator (backend/app/services/user_analyzer.py).          *)
(*                                                                         *)
(* Problems are referred to by their id; the variable corpus maps an id to *)
(* the row of the problems table (rating, solved_count, tag slugs).        *)
(* Python lists are sequences, dicts are functions, sets are sets.         *)
(***************************************************************************)
EXTENDS Integers, Sequences, FiniteSets, TLC

\* ---------------------------------------------------------------- bounds

\* Number of rows of the problems table (ids 1..NumProblems).
NumProblems == 4

\* Largest problem_count a request asks for in the path model.
MaxCount == 3

\* Quota model: largest number of bands, band size and problem_count.
MaxBands == 4
MaxBandSize == 4
MaxTotal == 8

\* Skill model: longest list of solved ratings.
MaxSolves == 5

\* Longest history of solved ratings of the history model.
MaxHistory == 20

\* Rows of the problems table of the similarity model.
NumSimilar == 3

\* The three-band quota model: largest band size and largest problem_count.
MaxEqualSize == 16
MaxRequest == 30

\* Largest number of tags of a problem of the score model.
MaxTags == 5

\* Longest path of the progress model.
MaxPathLen == 3

\* Bands and problems requested when no band is short of candidates.
MaxAmpleBands == 5
MaxAmpleTotal == 12

\* ------------------------------------------------------ program constants

\* settings.RATING_STEP, the default of PathConfig.rating_step.
RATING_STEP == 100

\* A rating column holding NULL (Python None).  Ratings are positive, so the
\* value -1 stands for the absent rating.
None == -1

\* PathMode
LEARNING == "learning"
REVISION == "revision"
CHALLENGE == "challenge"
PathMode == {LEARNING, REVISION, CHALLENGE}

\* ProblemStatus / PathStatus values used when a path is persisted.
UNLOCKED == "unlocked"
LOCKED == "locked"
ATTEMPTED == "attempted"
ACTIVE == "active"
PAUSED == "paused"
COMPLETED == "completed"
ABANDONED == "abandoned"
SOLVED == "solved"
SKIPPED == "skipped"

\* ------------------------------------------------------------- utilities

Min(a, b) == IF a <= b THEN a ELSE b
Max(a, b) == IF a >= b THEN a ELSE b

Range(s) == {s[i] : i \in 1..Len(s)}

\* The number of positions of the list s that hold x.
Count(s, x) == Cardinality({i \in 1..Len(s) : s[i] = x})

RECURSIVE SumSeq(_)
SumSeq(s) == IF s = <<>> THEN 0 ELSE Head(s) + SumSeq(Tail(s))

\* All the orders in which the elements of a finite set can be listed.
RECURSIVE Orderings(_)
Orderings(S) ==
    IF S = {} THEN {<<>>}
    ELSE UNION {{<<x>> \o t : t \in Orderings(S \ {x})} : x \in S}

\* All the rearrangements of a sequence (the outcomes of random.shuffle).
Shuffles(s) ==
    {[i \in 1..Len(s) |-> s[f[i]]] : f \in Orderings(1..Len(s))}

\* Python's sorted()/list.sort(): a stable sort.  before[<<a, b>>] is TRUE
\* when key(a) < key(b); an element is inserted after every element it is
\* not strictly before, so elements with equal keys keep their input order.
RECURSIVE Insert(_, _, _)
Insert(x, s, before) ==
    IF s = <<>> THEN <<x>>
    ELSE IF before[<<x, Head(s)>>] THEN <<x>> \o s
    ELSE <<Head(s)>> \o Insert(x, Tail(s), before)

RECURSIVE StableSort(_, _)
StableSort(s, before) ==
    IF s = <<>> THEN <<>>
    ELSE Insert(s[Len(s)], StableSort(SubSeq(s, 1, Len(s) - 1), before), before)

\* The same stable sort for long lists, one class of equal keys at a time:
\* the elements nothing is strictly before come first, in their input
\* order, then the rest sorted likewise.
RECURSIVE StableSortByClasses(_, _)
StableSortByClasses(s, before) ==
    IF s = <<>> THEN <<>>
    ELSE LET elements == Range(s)
             first == {x \in elements : \A y \in elements : ~before[<<y, x>>]}
             IsFirst(x) == x \in first
             IsLater(x) == x \notin first
         IN  SelectSeq(s, IsFirst)
                \o StableSortByClasses(SelectSeq(s, IsLater), before)

\* Python's round(p / q) for integers p >= 0, q > 0: round half to even.
Round(p, q) ==
    LET d == p \div q
        r == p % q
    IN  IF 2 * r < q THEN d
        ELSE IF 2 * r > q THEN d + 1
        ELSE IF d % 2 = 0 THEN d ELSE d + 1

\* math.log10(n) for n a power of ten (the solved counts of the model are
\* chosen so that solved_count + 1 is one, where the float result is exact).
RECURSIVE Log10(_)
Log10(n) == IF n < 10 THEN 0 ELSE 1 + Log10(n \div 10)

\* int(math.log(n + 1) * 40) for n = 1..147, as CPython computes it; from
\* n = 148 on the value is at least 200 (ln 149 > 5).
LogTimes40 ==
    << 27, 43, 55, 64, 71, 77, 83, 87, 92, 95, 99, 102, 105, 108, 110,
       113, 115, 117, 119, 121, 123, 125, 127, 128, 130, 131, 133, 134, 136, 137,
       138, 139, 141, 142, 143, 144, 145, 146, 147, 148, 149, 150, 151, 152, 153,
       154, 154, 155, 156, 157, 158, 158, 159, 160, 161, 161, 162, 163, 163, 164,
       165, 165, 166, 166, 167, 168, 168, 169, 169, 170, 171, 171, 172, 172, 173,
       173, 174, 174, 175, 175, 176, 176, 177, 177, 178, 178, 179, 179, 179, 180,
       180, 181, 181, 182, 182, 182, 183, 183, 184, 184, 184, 185, 185, 186, 186,
       186, 187, 187, 188, 188, 188, 189, 189, 189, 190, 190, 190, 191, 191, 191,
       192, 192, 192, 193, 193, 193, 194, 194, 194, 195, 195, 195, 195, 196, 196,
       196, 197, 197, 197, 197, 198, 198, 198, 199, 199, 199, 199 >>

\* ----------------------------------------------------------------- state

VARIABLES
    corpus,        \* problems table: id -> [rating, solved_count, tags]
    config,        \* the PathConfig of the request being served
    pc,            \* position of the request in generate_path / create_practice_path
    bands,         \* generate_path: bands (band key -> list of ids)
    quotas,        \* generate_path: quotas (band key -> count)
    bandPos,       \* _select_from_bands: number of bands already handled
    remaining,     \* _weighted_sample: remaining (indices into the pool)
    chosen,        \* _weighted_sample: selected
    selected,      \* _select_from_bands: selected
    ordered,       \* generate_path: ordered (before the truncation)
    path,          \* the list generate_path returned
    prevPath,      \* the list the previous generate_path call returned
    rerun,         \* TRUE once generation was re-run with the previous output excluded
    dbPaths,       \* rows added to practice_paths
    dbPathProblems,\* rows added to path_problems
    response,      \* outcome of the create_path request
    qBands,        \* quota model: bands handed to _calculate_band_quotas
    qConfig,       \* quota model: config handed to _calculate_band_quotas
    qQuotas,       \* quota model: the quotas returned
    qDone,         \* quota model: TRUE once the quotas were computed
    ratings,       \* skill model: solved ratings of a topic, in insertion order
    estimated,     \* skill model: last estimated_skill stored (None before any)
    simCorpus,     \* similarity model: problems table, id -> [rating, tags]
    simSolved,     \* similarity model: ids with a SOLVED user_progress row of the user
    simArgs,       \* similarity model: args of the find_similar_problems tool call
    simScored,     \* similarity model: scored, after its sort
    toolResult,    \* similarity model: what _execute_tool returned
    simPc,         \* similarity model: position of the tool call
    eduPair,       \* score model: two problems of a band
    eduScores,     \* score model: their _educational_score values (<<>> before)
    progPath,      \* progress model: the practice_paths row of the path
    progProblems,  \* progress model: its path_problems rows, by position
    progSolved,    \* progress model: problem ids with a SOLVED user_progress row
    progResponse,  \* progress model: response to the last request
    callConfig,    \* concurrency model: the PathConfig of each generate_path call
    callPc,        \* concurrency model: where each call stands
    callLocals,    \* concurrency model: bands and quotas of each call
    callDraws,     \* concurrency model: the generator values each call consumed
    rngState,      \* concurrency model: values drawn so far from the random module
    partProblems,  \* partition model: the list handed to _partition_into_bands
    partItems,     \* partition model: items of the dict returned, in its order
    partDone       \* partition model: TRUE once the bands were computed

pathVars == <<corpus, config, pc, bands, quotas, bandPos, remaining,
              chosen, selected, ordered, path, prevPath, rerun, dbPaths, dbPathProblems,
              response>>
quotaVars == <<qBands, qConfig, qQuotas, qDone>>
skillVars == <<ratings, estimated>>
simVars == <<simCorpus, simSolved, simArgs, simScored, toolResult, simPc>>
eduVars == <<eduPair, eduScores>>
progVars == <<progPath, progProblems, progSolved, progResponse>>
callVars == <<callConfig, callPc, callLocals, callDraws, rngState>>
partVars == <<partProblems, partItems, partDone>>
vars == <<pathVars, quotaVars, skillVars, simVars, eduVars, progVars, callVars,
          partVars>>

\* --------------------------------------------------- educational scoring

\* PathGeneratorService._educational_score, on a row of the problems table.
_educational_score(problem) ==
    LET popularity ==
            IF problem.solved_count > 0
            THEN Min(Log10(problem.solved_count + 1) * 10, 50)
            ELSE 0
        rated == IF problem.rating # None THEN 20 ELSE 0
        n_tags == Cardinality(problem.tags)
        tagTerm == IF n_tags = 0 THEN 0
                   ELSE IF n_tags <= 2 THEN 15
                   ELSE IF n_tags = 3 THEN 10
                   ELSE 5
    IN  popularity + rated + tagTerm

\* The score of the problem with id p.
Score(p) == _educational_score(corpus[p])

\* math.log10(x) * 10 in thousandths of a point, rounded down, for the
\* values x = solved_count + 1 of the score model.
Log10Times10(x) ==
    CASE x = 1 -> 0
      [] x = 2 -> 3010
      [] x = 3 -> 4771
      [] x = 5 -> 6989
      [] x = 10 -> 10000
      [] x = 11 -> 10413
      [] x = 50 -> 16989
      [] x = 100 -> 20000
      [] x = 1000 -> 30000
      [] x = 10000 -> 40000
      [] x = 99999 -> 49999
      [] x = 100000 -> 50000
      [] x = 100001 -> 50000
      [] x = 1000000 -> 60000

\* The solved_count term of _educational_score without its cap.
PopularityUncapped(solved_count) ==
    IF solved_count > 0 THEN Log10Times10(solved_count + 1) ELSE 0

\* The solved_count term of _educational_score, in thousandths of a point.
Popularity(solved_count) ==
    IF solved_count > 0
    THEN Min(Log10Times10(solved_count + 1), 50000)
    ELSE 0

\* The tag-count term with the 15 points given to 2-3 tags.
TagTermTwoToThree(n_tags) ==
    IF n_tags = 0 THEN 0
    ELSE IF 2 <= n_tags /\ n_tags <= 3 THEN 15000
    ELSE IF n_tags = 1 THEN 10000
    ELSE 5000

\* The tag-count term of _educational_score, in thousandths of a point.
TagTerm(n_tags) ==
    IF n_tags = 0 THEN 0
    ELSE IF 1 <= n_tags /\ n_tags <= 2 THEN 15000
    ELSE IF n_tags = 3 THEN 10000
    ELSE 5000

\* _educational_score in thousandths of a point, for solved counts whose
\* logarithm is not a whole number.
EducationalScoreFine(problem) ==
    Popularity(problem.solved_count)
    + (IF problem.rating # None THEN 20000 ELSE 0)
    + TagTerm(Cardinality(problem.tags))

\* -------------------------------------------------------- quota allocator

\* sorted(bands.keys())
RECURSIVE SortedKeys(_)
SortedKeys(S) ==
    IF S = {} THEN <<>>
    ELSE LET m == CHOOSE x \in S : \A y \in S : x <= y
         IN  <<m>> \o SortedKeys(S \ {m})

\* BandWeight with the weights of LEARNING and CHALLENGE exchanged.
BandWeightExchanged(mode, i, n_bands) ==
    IF mode = LEARNING THEN i
    ELSE IF mode = REVISION THEN 1
    ELSE IF mode = CHALLENGE THEN n_bands - (i - 1)
    ELSE 1

\* BandWeight with the weights of CHALLENGE given to REVISION too.
BandWeightRevisionBiased(mode, i, n_bands) ==
    IF mode = LEARNING THEN n_bands - (i - 1)
    ELSE IF mode = REVISION THEN i
    ELSE IF mode = CHALLENGE THEN i
    ELSE 1

\* The weight of the i-th band (i = 1..n_bands, ascending rating).
BandWeight(mode, i, n_bands) ==
    IF mode = LEARNING THEN n_bands - (i - 1)
    ELSE IF mode = REVISION THEN 1
    ELSE IF mode = CHALLENGE THEN i
    ELSE 1

\* InitialQuotas without the floor max(1, ...) on the rounded share.
InitialQuotasUnfloored(bnds, cfg) ==
    LET band_keys == SortedKeys(DOMAIN bnds)
        n_bands == Len(band_keys)
        total == cfg.problem_count
        total_weight ==
            SumSeq([i \in 1..n_bands |-> BandWeight(cfg.mode, i, n_bands)])
    IN  [key \in DOMAIN bnds |->
            LET i == CHOOSE j \in 1..n_bands : band_keys[j] = key
                count == Round(total * BandWeight(cfg.mode, i, n_bands),
                               total_weight)
            IN  Min(count, Len(bnds[key]))]

\* "Distribute problems proportionally": the quotas before reconciliation.
InitialQuotas(bnds, cfg) ==
    LET band_keys == SortedKeys(DOMAIN bnds)
        n_bands == Len(band_keys)
        total == cfg.problem_count
        total_weight ==
            SumSeq([i \in 1..n_bands |-> BandWeight(cfg.mode, i, n_bands)])
    IN  [key \in DOMAIN bnds |->
            LET i == CHOOSE j \in 1..n_bands : band_keys[j] = key
                count == Max(1, Round(total * BandWeight(cfg.mode, i, n_bands),
                                      total_weight))
            IN  Min(count, Len(bnds[key]))]

\* sorted(band_keys, key=..., reverse=True): descending by key value, bands
\* with equal values in ascending band order.
SortedDescending(band_keys, value) ==
    StableSort(band_keys,
               [pr \in Range(band_keys) \X Range(band_keys) |->
                    value[pr[1]] > value[pr[2]]])

\* "Add more from the bands with most available".
RECURSIVE AddLoop(_, _, _, _)
AddLoop(order, bnds, q, diff) ==
    IF order = <<>> THEN q
    ELSE LET key == Head(order)
             can_add == Len(bnds[key]) - q[key]
             add == Min(diff, can_add)
             q2 == [q EXCEPT ![key] = q[key] + add]
         IN  IF diff - add <= 0 THEN q2
             ELSE AddLoop(Tail(order), bnds, q2, diff - add)

\* RemoveLoop that empties bands (can_remove = quotas[key]) to hit the target.
RECURSIVE RemoveLoopToZero(_, _, _)
RemoveLoopToZero(order, q, diff) ==
    IF order = <<>> THEN q
    ELSE LET key == Head(order)
             can_remove == q[key]
             remove == Min(0 - diff, can_remove)
             q2 == [q EXCEPT ![key] = q[key] - remove]
         IN  IF diff + remove >= 0 THEN q2
             ELSE RemoveLoopToZero(Tail(order), q2, diff + remove)

\* "Remove from bands with most allocated".
RECURSIVE RemoveLoop(_, _, _)
RemoveLoop(order, q, diff) ==
    IF order = <<>> THEN q
    ELSE LET key == Head(order)
             can_remove == q[key] - 1
             remove == Min(0 - diff, can_remove)
             q2 == [q EXCEPT ![key] = q[key] - remove]
         IN  IF diff + remove >= 0 THEN q2
             ELSE RemoveLoop(Tail(order), q2, diff + remove)

\* PathGeneratorService._calculate_band_quotas
_calculate_band_quotas(bnds, cfg) ==
    LET band_keys == SortedKeys(DOMAIN bnds)
        q0 == InitialQuotas(bnds, cfg)
        allocated == SumSeq([i \in 1..Len(band_keys) |-> q0[band_keys[i]]])
        diff == cfg.problem_count - allocated
    IN  IF DOMAIN bnds = {} THEN q0
        ELSE IF diff > 0
        THEN AddLoop(SortedDescending(band_keys,
                                      [k \in DOMAIN bnds |-> Len(bnds[k])]),
                     bnds, q0, diff)
        ELSE IF diff < 0
        THEN RemoveLoop(SortedDescending(band_keys, q0), q0, diff)
        ELSE q0

\* --------------------------------------------------------- skill estimator

\* VolumeBonus that shrinks as the solves add up.
VolumeBonusFalling(n) ==
    IF n > Len(LogTimes40) THEN 0 ELSE Max(0, 200 - LogTimes40[n])

\* min(int(math.log(n + 1) * 40), 200)
VolumeBonus(n) == IF n > Len(LogTimes40) THEN 200 ELSE Min(LogTimes40[n], 200)

\* _estimate_topic_skill without the lower clamp max(800, ...).
_estimate_topic_skill_no_floor(rs) ==
    IF rs = <<>> THEN 800
    ELSE
    LET sorted_ratings ==
            StableSort(rs, [pr \in Range(rs) \X Range(rs) |-> pr[1] < pr[2]])
        n == Len(sorted_ratings)
        p75_idx == Min((n * 3) \div 4, n - 1)
        baseline == sorted_ratings[p75_idx + 1]
        volume_bonus == VolumeBonus(n)
        median == sorted_ratings[(n \div 2) + 1]
        max_rating == sorted_ratings[n]
        consistency_penalty == Max(0, (max_rating - median) \div 4)
        estimate == baseline + volume_bonus - consistency_penalty
    IN  Min(3500, estimate)

\* _estimate_topic_skill without the volume bonus.
_estimate_topic_skill_no_bonus(rs) ==
    IF rs = <<>> THEN 800
    ELSE
    LET sorted_ratings ==
            StableSort(rs, [pr \in Range(rs) \X Range(rs) |-> pr[1] < pr[2]])
        n == Len(sorted_ratings)
        p75_idx == Min((n * 3) \div 4, n - 1)
        baseline == sorted_ratings[p75_idx + 1]
        median == sorted_ratings[(n \div 2) + 1]
        max_rating == sorted_ratings[n]
        consistency_penalty == Max(0, (max_rating - median) \div 4)
        estimate == baseline - consistency_penalty
    IN  Max(800, Min(3500, estimate))

\* _estimate_topic_skill with the highest solved rating as the baseline.
_estimate_topic_skill_max_baseline(rs) ==
    IF rs = <<>> THEN 800
    ELSE
    LET sorted_ratings ==
            StableSort(rs, [pr \in Range(rs) \X Range(rs) |-> pr[1] < pr[2]])
        n == Len(sorted_ratings)
        baseline == sorted_ratings[n]
        volume_bonus == VolumeBonus(n)
        median == sorted_ratings[(n \div 2) + 1]
        max_rating == sorted_ratings[n]
        consistency_penalty == Max(0, (max_rating - median) \div 4)
        estimate == baseline + volume_bonus - consistency_penalty
    IN  Max(800, Min(3500, estimate))

\* UserAnalyzerService._estimate_topic_skill
_estimate_topic_skill(rs) ==
    IF rs = <<>> THEN 800
    ELSE
    LET sorted_ratings ==
            StableSort(rs, [pr \in Range(rs) \X Range(rs) |-> pr[1] < pr[2]])
        n == Len(sorted_ratings)
        p75_idx == Min((n * 3) \div 4, n - 1)
        baseline == sorted_ratings[p75_idx + 1]
        volume_bonus == VolumeBonus(n)
        median == sorted_ratings[(n \div 2) + 1]
        max_rating == sorted_ratings[n]
        consistency_penalty == Max(0, (max_rating - median) \div 4)
        estimate == baseline + volume_bonus - consistency_penalty
    IN  Max(800, Min(3500, estimate))

\* ------------------------------------------------------- path generation

\* t.lower().replace(" ", "-") on the topic names a request can carry.
Slug(t) ==
    IF t = "DP" THEN "dp"
    ELSE IF t = "Two Pointers" THEN "two-pointers"
    ELSE t

\* Matching without the "Problem.id.notin_(exclude_problem_ids)" clause.
MatchingIgnoringExclusions(cfg) ==
    LET topic_slugs == {Slug(cfg.topics[i]) : i \in 1..Len(cfg.topics)}
    IN  {p \in DOMAIN corpus :
            /\ corpus[p].rating # None
            /\ corpus[p].rating >= cfg.min_rating
            /\ corpus[p].rating <= cfg.max_rating
            /\ (cfg.topics # <<>> => corpus[p].tags \cap topic_slugs # {})}

\* The WHERE clause of _fetch_candidates: the ids the query returns.
Matching(cfg) ==
    LET topic_slugs == {Slug(cfg.topics[i]) : i \in 1..Len(cfg.topics)}
    IN  {p \in DOMAIN corpus :
            /\ corpus[p].rating # None
            /\ corpus[p].rating >= cfg.min_rating
            /\ corpus[p].rating <= cfg.max_rating
            /\ (cfg.topics # <<>> => corpus[p].tags \cap topic_slugs # {})
            /\ (cfg.exclude_problem_ids # {} => p \notin cfg.exclude_problem_ids)}

\* PathGeneratorService._fetch_candidates: the query has no ORDER BY, so the
\* distinct matching rows come back in an order the database chooses.
_fetch_candidates(cfg) == Orderings(Matching(cfg))

\* BandKey that rounds the rating to the nearest multiple of the step.
BandKeyRounded(p, cfg) ==
    ((corpus[p].rating + cfg.rating_step \div 2) \div cfg.rating_step)
        * cfg.rating_step

\* band_key = (p.rating // step) * step
BandKey(p, cfg) == (corpus[p].rating \div cfg.rating_step) * cfg.rating_step

\* The sub-list of the elements of s that satisfy keep, in the order of s.
RECURSIVE Filter(_, _)
Filter(s, keep) ==
    IF s = <<>> THEN <<>>
    ELSE IF Head(s) \in keep THEN <<Head(s)>> \o Filter(Tail(s), keep)
    ELSE Filter(Tail(s), keep)

\* PathGeneratorService._partition_into_bands
_partition_into_bands(problems, cfg) ==
    LET rated == {p \in Range(problems) : corpus[p].rating # None}
        keys == {BandKey(p, cfg) : p \in rated}
    IN  [k \in keys |->
            LET members == Filter(problems, {p \in rated : BandKey(p, cfg) = k})
            IN  StableSort(members,
                           [pr \in Range(members) \X Range(members) |->
                                Score(pr[1]) > Score(pr[2])])]

\* dict(sorted(bands.items())): the items of the dict _partition_into_bands
\* returns, in the order the dict iterates them.
PartitionItems(problems, cfg) ==
    LET bnds == _partition_into_bands(problems, cfg)
        keys == SortedKeys(DOMAIN bnds)
    IN  [i \in 1..Len(keys) |-> <<keys[i], bnds[keys[i]]>>]

\* _select_from_bands: pick_count and the pool of one band.
PickCount(bnds, q, key) == Min(q[key], Len(bnds[key]))

\* Pool that is the whole band (no "top 3 * pick_count" cut).
PoolWholeBand(bnds, q, key) == bnds[key]

Pool(bnds, q, key) ==
    SubSeq(bnds[key], 1, Min(PickCount(bnds, q, key) * 3, Len(bnds[key])))

\* _weighted_sample: the weight of an item.
Weight(p) == Score(p) + 1

\* _weighted_sample: the index chosen for the draw r among the indices rem
\* of items (the first whose cumulative weight reaches r, else rem[0]).
RECURSIVE Walk(_, _, _, _)
Walk(items, rem, cumulative, r) ==
    IF rem = <<>> THEN 0
    ELSE IF cumulative + Weight(items[Head(rem)]) >= r THEN Head(rem)
    ELSE Walk(items, Tail(rem), cumulative + Weight(items[Head(rem)]), r)

ChosenIdx(items, rem, r) ==
    LET w == Walk(items, rem, 0, r)
    IN  IF w = 0 THEN Head(rem) ELSE w

\* Remove that leaves the chosen index in place (sampling with replacement).
RemoveNothing(rem, chosen_idx) == rem

\* remaining.remove(chosen_idx)
Remove(rem, chosen_idx) == Filter(rem, Range(rem) \ {chosen_idx})

\* random.uniform(0, total): a real of [0, total].  The walk compares r with
\* the cumulative weights only, so a draw has the outcome of the smallest
\* cumulative weight that is >= r; these, and 0, stand for every draw.
Draws(items, rem) ==
    {0} \cup {SumSeq([i \in 1..n |-> Weight(items[rem[i]])]) : n \in 1..Len(rem)}

\* SortForOrder that sorts by educational score alone.
SortForOrderByScore(problems) ==
    StableSort(problems,
               [pr \in Range(problems) \X Range(problems) |->
                    Score(pr[1]) > Score(pr[2])])

\* _order_problems: the sort by (rating or 0, -educational score).
SortForOrder(problems) ==
    StableSort(problems,
               [pr \in Range(problems) \X Range(problems) |->
                    LET ra == IF corpus[pr[1]].rating = None THEN 0
                              ELSE corpus[pr[1]].rating
                        rb == IF corpus[pr[2]].rating = None THEN 0
                              ELSE corpus[pr[2]].rating
                    IN  \/ ra < rb
                        \/ ra = rb /\ Score(pr[1]) > Score(pr[2])])

\* ShuffleGroup that re-concatenates the first half twice.
ShuffleGroupFirstHalfTwice(group) ==
    IF Len(group) > 2
    THEN LET mid == Len(group) \div 2
         IN  {a \o b : a \in Shuffles(SubSeq(group, 1, mid)),
                       b \in Shuffles(SubSeq(group, 1, mid))}
    ELSE {group}

\* ShuffleGroup that shuffles the whole group at once.
ShuffleGroupWhole(group) ==
    IF Len(group) > 2 THEN Shuffles(group) ELSE {group}

\* _order_problems: the outcomes of the light shuffle of one group.
ShuffleGroup(group) ==
    IF Len(group) > 2
    THEN LET mid == Len(group) \div 2
         IN  {a \o b : a \in Shuffles(SubSeq(group, 1, mid)),
                       b \in Shuffles(SubSeq(group, mid + 1, Len(group)))}
    ELSE {group}

\* _order_problems: the while loop over the groups of consecutive problems
\* of equal rating, from position i of the sorted list.
RECURSIVE OrderFrom(_, _)
OrderFrom(problems, i) ==
    IF i > Len(problems) THEN {<<>>}
    ELSE LET j == CHOOSE n \in (i + 1)..(Len(problems) + 1) :
                    /\ \A m \in i..(n - 1) :
                           corpus[problems[m]].rating = corpus[problems[i]].rating
                    /\ (n <= Len(problems) =>
                           corpus[problems[n]].rating # corpus[problems[i]].rating)
         IN  {g \o rest : g \in ShuffleGroup(SubSeq(problems, i, j - 1)),
                          rest \in OrderFrom(problems, j)}

\* PathGeneratorService._order_problems: every list the shuffles can yield.
_order_problems(problems) == OrderFrom(SortForOrder(problems), 1)

\* Truncate that returns the whole list.
TruncateNothing(ord, cfg) == ord

\* Truncate that cuts one problem too many.
TruncateOneMore(ord, cfg) == SubSeq(ord, 1, Min(Len(ord), cfg.problem_count - 1))

\* generate_path: return ordered[: config.problem_count]
Truncate(ord, cfg) == SubSeq(ord, 1, Min(Len(ord), cfg.problem_count))

\* ------------------------------------------------------------ input sets

ProblemIds == 1..NumProblems

\* The rows a problems table of the model is made of (rating, solved_count
\* with solved_count + 1 a power of ten, tag slugs).  Five rows fall in the
\* band 800 and two in the band 900; some share their rating, some their
\* educational score, two share both; one row does not carry the requested
\* topic and one is unrated.
ProblemRows ==
    << [rating |-> 800, solved_count |-> 9, tags |-> {"dp"}],
       [rating |-> 800, solved_count |-> 9, tags |-> {"dp", "greedy"}],
       [rating |-> 800, solved_count |-> 0, tags |-> {"dp"}],
       [rating |-> 850, solved_count |-> 0, tags |-> {"dp", "greedy", "math"}],
       [rating |-> 850, solved_count |-> 9, tags |-> {"dp"}],
       [rating |-> 900, solved_count |-> 99, tags |-> {"dp"}],
       [rating |-> 900, solved_count |-> 0, tags |-> {"dp", "math"}],
       [rating |-> 850, solved_count |-> 9, tags |-> {"two-pointers"}],
       [rating |-> None, solved_count |-> 0, tags |-> {"dp"}] >>

\* The problems tables of the model: NumProblems different rows of
\* ProblemRows.  Ids are opaque keys and the candidates query returns its
\* rows in any order, so two tables that differ by a renaming of the ids
\* behave alike: the rows are listed in the order of ProblemRows.
Corpora ==
    {[p \in ProblemIds |-> ProblemRows[f[p]]] :
        f \in {g \in [ProblemIds -> 1..Len(ProblemRows)] :
                 \A p1, p2 \in ProblemIds : p1 < p2 => g[p1] < g[p2]}}

\* The PathConfig values of the requests: a user with no solved problem yet
\* asks for 1..MaxCount problems of the topic "DP" in one of two rating
\* ranges; one more request carries a range that create_path rejects.
RatingRanges == {<<800, 900>>, <<800, 850>>}

PathConfig(rr, m, n, ex) ==
    [topics |-> <<"DP">>, min_rating |-> rr[1], max_rating |-> rr[2],
     mode |-> m, problem_count |-> n, exclude_problem_ids |-> ex,
     rating_step |-> RATING_STEP]

Configs ==
    {PathConfig(rr, m, n, {}) :
        rr \in RatingRanges, m \in PathMode, n \in 1..MaxCount}
    \cup {PathConfig(<<900, 800>>, LEARNING, 1, {})}

\* Responses of create_path.
Created == "201 Created"
BadRange == "400 min_rating must be <= max_rating"
NoMatch == "400 Could not generate path: no matching problems found"

\* ----------------------------------------------------------------- actions

quotaIdle ==
    /\ qBands = <<>> /\ qConfig = <<>> /\ qQuotas = <<>> /\ qDone = FALSE
skillIdle ==
    /\ ratings = <<>> /\ estimated = None
simIdle ==
    /\ simCorpus = <<>> /\ simSolved = {} /\ simArgs = <<>>
    /\ simScored = <<>> /\ toolResult = <<>> /\ simPc = "idle"
eduIdle ==
    /\ eduPair = <<>> /\ eduScores = <<>>
callIdle ==
    /\ callConfig = <<>> /\ callPc = <<>> /\ callLocals = <<>>
    /\ callDraws = <<>> /\ rngState = 0
partIdle ==
    /\ partProblems = <<>> /\ partItems = <<>> /\ partDone = FALSE
progIdle ==
    /\ progPath = <<>> /\ progProblems = <<>> /\ progSolved = {}
    /\ progResponse = "none"

\* The locals of a generate_path call before its first statement.
FreshCall ==
    /\ bands = <<>> /\ quotas = <<>> /\ bandPos = 0
    /\ remaining = <<>> /\ chosen = <<>> /\ selected = <<>> /\ ordered = <<>>
    /\ path = <<>>

Init ==
    /\ corpus \in Corpora
    /\ config \in Configs
    /\ pc = "request"
    /\ FreshCall
    /\ prevPath = <<>> /\ rerun = FALSE
    /\ dbPaths = <<>> /\ dbPathProblems = <<>>
    /\ response = "none"
    /\ quotaIdle /\ skillIdle /\ simIdle /\ eduIdle /\ progIdle /\ callIdle /\ partIdle

\* The rows create_practice_path adds for the generated list problems.
NewPath(problems) ==
    [id |-> Len(dbPaths) + 1, topics |-> config.topics,
     min_rating |-> config.min_rating, max_rating |-> config.max_rating,
     mode |-> config.mode, total_problems |-> Len(problems),
     current_position |-> 0, status |-> ACTIVE]

\* NewPathProblems with the positions counted from 1.
NewPathProblemsFromOne(problems) ==
    [i \in 1..Len(problems) |->
        [path_id |-> Len(dbPaths) + 1, problem_id |-> problems[i],
         position |-> i,
         status |-> IF i = 0 THEN UNLOCKED ELSE LOCKED]]

NewPathProblems(problems) ==
    [i \in 1..Len(problems) |->
        [path_id |-> Len(dbPaths) + 1, problem_id |-> problems[i],
         position |-> i - 1,
         status |-> IF i - 1 = 0 THEN UNLOCKED ELSE LOCKED]]

\* create_practice_path that adds the path row before it looks at problems.
create_practice_path_add_first(problems) ==
    /\ dbPaths' = Append(dbPaths, NewPath(problems))
    /\ IF problems = <<>>
       THEN /\ response' = NoMatch
            /\ UNCHANGED dbPathProblems
       ELSE /\ dbPathProblems' = dbPathProblems \o NewPathProblems(problems)
            /\ response' = Created

\* PathGeneratorService.create_practice_path after generate_path returned
\* problems, and the end of create_path: the ValueError becomes a 400,
\* else the rows are added.
create_practice_path(problems) ==
    IF problems = <<>>
    THEN /\ response' = NoMatch
         /\ UNCHANGED <<dbPaths, dbPathProblems>>
    ELSE /\ dbPaths' = Append(dbPaths, NewPath(problems))
         /\ dbPathProblems' = dbPathProblems \o NewPathProblems(problems)
         /\ response' = Created

\* create_path up to the call of create_practice_path, then generate_path
\* steps 1 to 3: the range check, the candidates query (whose rows come in
\* any order), the bands and their quotas.  Without candidates
\* generate_path returns the empty list at once and create_practice_path
\* raises.
StartRequest ==
    /\ pc = "request"
    /\ IF config.min_rating > config.max_rating
       THEN /\ response' = BadRange
            /\ pc' = "done"
            /\ UNCHANGED <<bands, quotas, dbPaths, dbPathProblems>>
       ELSE \E candidates \in _fetch_candidates(config) :
                 IF candidates = <<>>
                 THEN /\ create_practice_path(<<>>)
                      /\ pc' = "done"
                      /\ UNCHANGED <<bands, quotas>>
                 ELSE /\ bands' = _partition_into_bands(candidates, config)
                      /\ quotas' = _calculate_band_quotas(bands', config)
                      /\ pc' = "select"
                      /\ UNCHANGED <<response, dbPaths, dbPathProblems>>
    /\ UNCHANGED <<corpus, config, bandPos, remaining, chosen, selected,
                   ordered, path, prevPath, rerun>>

\* The band the loop of _select_from_bands is at.
CurrentKey == SortedKeys(DOMAIN quotas)[bandPos + 1]

\* _select_from_bands: one iteration of the loop over the bands, up to the
\* first random draw of _weighted_sample (which returns the whole pool at
\* once when k >= len(items)).
SelectBand ==
    /\ pc = "select"
    /\ bandPos < Cardinality(DOMAIN quotas)
    /\ LET pick_count == PickCount(bands, quotas, CurrentKey)
           pool == Pool(bands, quotas, CurrentKey)
       IN  IF pick_count >= Len(pool)
           THEN /\ chosen' = pool
                /\ selected' = selected \o pool
                /\ bandPos' = bandPos + 1
                /\ UNCHANGED <<pc, remaining>>
           ELSE /\ chosen' = <<>>
                /\ remaining' = [i \in 1..Len(pool) |-> i]
                /\ pc' = "sample"
                /\ UNCHANGED <<selected, bandPos>>
    /\ UNCHANGED <<corpus, config, bands, quotas, ordered, path,
                   prevPath, rerun, dbPaths, dbPathProblems, response>>

\* _weighted_sample: one iteration of "for _ in range(k)", with its draw r;
\* after the last one the band's picks are appended to selected.
WeightedPick ==
    /\ pc = "sample"
    /\ LET pick_count == PickCount(bands, quotas, CurrentKey)
           pool == Pool(bands, quotas, CurrentKey)
           total == SumSeq([i \in 1..Len(remaining) |-> Weight(pool[remaining[i]])])
       IN  \E r \in Draws(pool, remaining) :
             LET chosen_idx == ChosenIdx(pool, remaining, r)
                 stop == total <= 0
                 picks == IF stop THEN chosen ELSE Append(chosen, pool[chosen_idx])
             IN  /\ chosen' = picks
                 /\ remaining' = IF stop THEN remaining
                                 ELSE Remove(remaining, chosen_idx)
                 /\ IF stop \/ Len(picks) = pick_count
                    THEN /\ selected' = selected \o picks
                         /\ bandPos' = bandPos + 1
                         /\ pc' = "select"
                    ELSE UNCHANGED <<selected, bandPos, pc>>
    /\ UNCHANGED <<corpus, config, bands, quotas, ordered, path,
                   prevPath, rerun, dbPaths, dbPathProblems, response>>

\* generate_path step 5 and the return (the ordering with its shuffles, which
\* sorts the list selected in place, and the truncation to problem_count),
\* then the rest of create_practice_path and of create_path.
OrderAndCreate ==
    /\ pc = "select"
    /\ bandPos = Cardinality(DOMAIN quotas)
    /\ ordered' \in _order_problems(selected)
    /\ selected' = SortForOrder(selected)
    /\ path' = Truncate(ordered', config)
    /\ create_practice_path(path')
    /\ pc' = "done"
    /\ UNCHANGED <<corpus, config, bands, quotas, bandPos, remaining, chosen,
                   prevPath, rerun>>

\* A second request with the same config, except that exclude_problem_ids is
\* the full output of the first one.
Rerun ==
    /\ pc = "done"
    /\ response = Created
    /\ ~rerun
    /\ rerun' = TRUE
    /\ prevPath' = path
    /\ config' = [config EXCEPT !.exclude_problem_ids = Range(path)]
    /\ pc' = "request"
    /\ response' = "none"
    /\ bands' = <<>> /\ quotas' = <<>> /\ bandPos' = 0
    /\ remaining' = <<>> /\ chosen' = <<>> /\ selected' = <<>> /\ ordered' = <<>>
    /\ path' = <<>>
    /\ UNCHANGED <<corpus, dbPaths, dbPathProblems>>

Next ==
    \/ (StartRequest /\ UNCHANGED <<quotaVars, skillVars, simVars, eduVars, progVars, callVars, partVars>>)
    \/ (SelectBand /\ UNCHANGED <<quotaVars, skillVars, simVars, eduVars, progVars, callVars, partVars>>)
    \/ (WeightedPick /\ UNCHANGED <<quotaVars, skillVars, simVars, eduVars, progVars, callVars, partVars>>)
    \/ (OrderAndCreate /\ UNCHANGED <<quotaVars, skillVars, simVars, eduVars, progVars, callVars, partVars>>)
    \/ (Rerun /\ UNCHANGED <<quotaVars, skillVars, simVars, eduVars, progVars, callVars, partVars>>)

Spec == Init /\ [][Next]_vars

\* ------------------------------------------------------------ quota model
\* _calculate_band_quotas on its own: it reads the keys of the bands, their
\* sizes, the mode and problem_count only.

pathIdle ==
    /\ corpus = <<>> /\ config = <<>> /\ pc = "idle"
    /\ FreshCall
    /\ prevPath = <<>> /\ rerun = FALSE
    /\ dbPaths = <<>> /\ dbPathProblems = <<>>
    /\ response = "none"

\* 1 to MaxBands non-empty bands 800, 900, ... of 1 to MaxBandSize problems.
QuotaBands ==
    UNION {[{800 + RATING_STEP * (i - 1) : i \in 1..n} ->
                {[j \in 1..size |-> j] : size \in 1..MaxBandSize}] :
           n \in 1..MaxBands}

QuotaConfigs == [mode : PathMode, problem_count : 1..MaxTotal]

QuotaInit ==
    /\ qBands \in QuotaBands
    /\ qConfig \in QuotaConfigs
    /\ qQuotas = <<>>
    /\ qDone = FALSE
    /\ pathIdle /\ skillIdle /\ simIdle /\ eduIdle /\ progIdle /\ callIdle /\ partIdle

Allocate ==
    /\ ~qDone
    /\ qQuotas' = _calculate_band_quotas(qBands, qConfig)
    /\ qDone' = TRUE
    /\ UNCHANGED <<qBands, qConfig>>

QuotaNext == Allocate /\ UNCHANGED <<pathVars, skillVars, simVars, eduVars, progVars, callVars, partVars>>

SpecQuota == QuotaInit /\ [][QuotaNext]_vars

\* The allocator on three bands 800, 900, 1000 of one size, for requests of
\* up to MaxRequest problems.
ThreeBands ==
    {[k \in {800, 900, 1000} |-> [j \in 1..size |-> j]] :
        size \in 1..MaxEqualSize}

ThreeInit ==
    /\ qBands \in ThreeBands
    /\ qConfig \in [mode : PathMode, problem_count : 1..MaxRequest]
    /\ qQuotas = <<>>
    /\ qDone = FALSE
    /\ pathIdle /\ skillIdle /\ simIdle /\ eduIdle /\ progIdle /\ callIdle /\ partIdle

SpecThreeBands == ThreeInit /\ [][QuotaNext]_vars

\* The allocator on 1 to MaxAmpleBands bands that each hold at least as many
\* problems as the request asks for (problem_count or one more).
AmpleBands(total) ==
    UNION {[{800 + RATING_STEP * (i - 1) : i \in 1..n} ->
                {[j \in 1..size |-> j] : size \in {total, total + 1}}] :
           n \in 1..MaxAmpleBands}

AmpleInit ==
    /\ qConfig \in [mode : PathMode, problem_count : 1..MaxAmpleTotal]
    /\ qBands \in AmpleBands(qConfig.problem_count)
    /\ qQuotas = <<>>
    /\ qDone = FALSE
    /\ pathIdle /\ skillIdle /\ simIdle /\ eduIdle /\ progIdle /\ callIdle /\ partIdle

SpecAmple == AmpleInit /\ [][QuotaNext]_vars

\* ------------------------------------------------------------ skill model
\* sync_user_cf_data for one user and one topic: a sync brings one more
\* solved problem carrying the topic, then _recalculate_topic_stats
\* recomputes estimated_skill from the ratings of all the solved ones.

SkillRatings == {800, 1200, 2000, 3500}

SkillInit ==
    /\ ratings = <<>>
    /\ estimated = None
    /\ pathIdle /\ quotaIdle /\ simIdle /\ eduIdle /\ progIdle /\ callIdle /\ partIdle

\* The new solved problem is rated: its rating joins the list.
SyncRated ==
    /\ Len(ratings) < MaxSolves
    /\ \E r \in SkillRatings : ratings' = Append(ratings, r)
    /\ estimated' = _estimate_topic_skill(ratings')

\* The new solved problem is unrated ("if problem.rating:" fails): the list
\* stays as it is.
SyncUnrated ==
    /\ ratings' = ratings
    /\ estimated' = _estimate_topic_skill(ratings')

SkillNext ==
    \/ (SyncRated /\ UNCHANGED <<pathVars, quotaVars, simVars, eduVars, progVars, callVars, partVars>>)
    \/ (SyncUnrated /\ UNCHANGED <<pathVars, quotaVars, simVars, eduVars, progVars, callVars, partVars>>)

SpecSkill == SkillInit /\ [][SkillNext]_vars

\* ---------------------------------------------------------- history model
\* The same sync, followed over longer histories of one topic: the user
\* solves problems of one rating, and at most one solved problem has another
\* rating (at any place of the insertion order).

HistoryRatings == {800, 1200, 2200, 3000, 3400, 3500}

OneOdd(rs) == \E r \in Range(rs) : Count(rs, r) >= Len(rs) - 1

HistoryInit ==
    /\ ratings = <<>>
    /\ estimated = None
    /\ pathIdle /\ quotaIdle /\ simIdle /\ eduIdle /\ progIdle /\ callIdle /\ partIdle

SyncHistory ==
    /\ Len(ratings) < MaxHistory
    /\ \E r \in HistoryRatings :
            /\ OneOdd(Append(ratings, r))
            /\ ratings' = Append(ratings, r)
    /\ estimated' = _estimate_topic_skill(ratings')

HistoryNext ==
    \/ (SyncHistory /\ UNCHANGED <<pathVars, quotaVars, simVars, eduVars, progVars, callVars, partVars>>)
    \/ (SyncUnrated /\ UNCHANGED <<pathVars, quotaVars, simVars, eduVars, progVars, callVars, partVars>>)

SpecHistory == HistoryInit /\ [][HistoryNext]_vars

\* -------------------------------------------------------- similarity model
\* RecommenderService.find_similar_problems, called by the agent's
\* _execute_tool.  The scores are floats in the code; here a score is the
\* exact fraction [num, den] it stands for.

Rat(n, d) == [num |-> n, den |-> d]
RatEq(a, b) == a.num * b.den = b.num * a.den
RatLess(a, b) == a.num * b.den < b.num * a.den
RatLeq(a, b) == a.num * b.den <= b.num * a.den

\* "x.rating or 1200"
OrDefault(rating) == IF rating = None \/ rating = 0 THEN 1200 ELSE rating

\* Jaccard with the sizes of the two sets added up as the denominator.
JaccardOverSizes(ref_tag_ids, p_tag_ids) ==
    IF ref_tag_ids # {} \/ p_tag_ids # {}
    THEN Rat(Cardinality(ref_tag_ids \cap p_tag_ids),
             Cardinality(ref_tag_ids) + Cardinality(p_tag_ids))
    ELSE Rat(0, 1)

\* Jaccard with the size of the reference's set as the denominator.
JaccardOverReference(ref_tag_ids, p_tag_ids) ==
    IF ref_tag_ids # {} \/ p_tag_ids # {}
    THEN Rat(Cardinality(ref_tag_ids \cap p_tag_ids),
             Max(1, Cardinality(ref_tag_ids)))
    ELSE Rat(0, 1)

\* jaccard of find_similar_problems
Jaccard(ref_tag_ids, p_tag_ids) ==
    IF ref_tag_ids # {} \/ p_tag_ids # {}
    THEN Rat(Cardinality(ref_tag_ids \cap p_tag_ids),
             Cardinality(ref_tag_ids \cup p_tag_ids))
    ELSE Rat(0, 1)

\* rating_sim = max(0, 1 - abs(ref_rating - p_rating) / 500)
RatingSim(ref_rating, p_rating) ==
    LET d == IF ref_rating >= p_rating THEN ref_rating - p_rating
             ELSE p_rating - ref_rating
    IN  Rat(Max(0, 500 - d), 500)

\* score = 0.7 * jaccard + 0.3 * rating_sim
SimilarityScore(jaccard, rating_sim) ==
    Rat(7 * jaccard.num * rating_sim.den + 3 * rating_sim.num * jaccard.den,
        10 * jaccard.den * rating_sim.den)

\* The rows the candidates query selects.
SimMatching(problem_id, exclude_solved_by) ==
    LET ref == simCorpus[problem_id]
        ref_tag_ids == ref.tags
        ref_rating == OrDefault(ref.rating)
        window == IF ref_tag_ids # {} THEN 300 ELSE 200
    IN  {p \in DOMAIN simCorpus :
            /\ p # problem_id
            /\ simCorpus[p].rating # None
            /\ simCorpus[p].rating >= ref_rating - window
            /\ simCorpus[p].rating <= ref_rating + window
            /\ (ref_tag_ids # {} => simCorpus[p].tags \cap ref_tag_ids # {})
            /\ (exclude_solved_by # "" => p \notin simSolved)}

\* ".limit(200)  # Fetch more, rank locally"
FETCH_LIMIT == 200

\* The candidates query has a LIMIT 200 and no ORDER BY: any 200 (or all, if
\* fewer) of the matching rows, in any order.
SimFetch(problem_id, exclude_solved_by) ==
    LET M == SimMatching(problem_id, exclude_solved_by)
        k == Min(FETCH_LIMIT, Cardinality(M))
    IN  UNION {Orderings(S) : S \in {T \in SUBSET M : Cardinality(T) = k}}

\* The list scored, after scored.sort(key=score, reverse=True).
RankSimilar(problem_id, candidates) ==
    LET ref == simCorpus[problem_id]
        ref_tag_ids == ref.tags
        ref_rating == OrDefault(ref.rating)
        scored ==
            [i \in 1..Len(candidates) |->
                LET p == candidates[i]
                    jaccard == Jaccard(ref_tag_ids, simCorpus[p].tags)
                    rating_sim ==
                        RatingSim(ref_rating, OrDefault(simCorpus[p].rating))
                IN  [score |-> SimilarityScore(jaccard, rating_sim),
                     jaccard |-> jaccard, rating_sim |-> rating_sim, p |-> p]]
        n == Len(candidates)
        rows == SubSeq(scored, 1, n)
        \* the positions of rows, in the order the sort leaves them
        order == StableSortByClasses([i \in 1..n |-> i],
                    [pr \in (1..n) \X (1..n) |->
                        RatLess(rows[pr[2]].score, rows[pr[1]].score)])
    IN  [i \in 1..n |-> rows[order[i]]]

\* RecommenderService._problem_to_dict (the fields the model keeps)
_problem_to_dict(p) ==
    [id |-> p, rating |-> simCorpus[p].rating, tags |-> simCorpus[p].tags]

\* RecommenderService.find_similar_problems, given the rows its candidates
\* query returned.
find_similar_problems(problem_id, candidates, limit) ==
    IF problem_id \notin DOMAIN simCorpus THEN <<>>
    ELSE LET sorted == RankSimilar(problem_id, candidates)
         IN  [i \in 1..Min(limit, Len(sorted)) |->
                 _problem_to_dict(sorted[i].p)]

\* The problems tables of the similarity model: NumSimilar rows of
\* SimilarRows, listed in the order of SimilarRows.
SimilarIds == 1..NumSimilar

SimilarRows ==
    << [rating |-> 1200, tags |-> {"dp", "greedy"}],
       [rating |-> 1200, tags |-> {"dp", "greedy"}],
       [rating |-> 1200, tags |-> {}],
       [rating |-> 1200, tags |-> {}],
       [rating |-> None, tags |-> {"dp"}],
       [rating |-> 1500, tags |-> {"dp"}],
       [rating |-> 1400, tags |-> {"greedy", "math"}],
       [rating |-> 1000, tags |-> {}],
       [rating |-> 1300, tags |-> {"dp", "greedy", "math"}],
       [rating |-> 1800, tags |-> {"dp"}] >>

SimilarCorpora ==
    {[p \in SimilarIds |-> SimilarRows[f[p]]] :
        f \in {g \in [SimilarIds -> 1..Len(SimilarRows)] :
                 \A p1, p2 \in SimilarIds : p1 < p2 => g[p1] < g[p2]}}

\* The args the agent passes: an id of the table or one past it, a user to
\* exclude the solved problems of (or ""), and a limit.
ToolArgs ==
    [problem_id : 1..(NumSimilar + 1), exclude_solved_by : {"", "user"},
     limit : {1, 2, 25}]

SimilarInit ==
    /\ simCorpus \in SimilarCorpora
    /\ simSolved \in SUBSET SimilarIds
    /\ simArgs = <<>> /\ simScored = <<>> /\ toolResult = <<>>
    /\ simPc = "ready"
    /\ pathIdle /\ quotaIdle /\ skillIdle /\ eduIdle /\ progIdle /\ callIdle /\ partIdle

\* _execute_tool, tool_name "find_similar_problems"
ExecuteFindSimilar ==
    /\ simPc = "ready"
    /\ \E args \in ToolArgs :
        \E candidates \in
            (IF args.problem_id \in DOMAIN simCorpus
             THEN SimFetch(args.problem_id, args.exclude_solved_by)
             ELSE {<<>>}) :
            /\ simArgs' = args
            /\ simScored' =
                    IF args.problem_id \in DOMAIN simCorpus
                    THEN RankSimilar(args.problem_id, candidates)
                    ELSE <<>>
            /\ toolResult' =
                    find_similar_problems(args.problem_id, candidates,
                                          Min(args.limit, 20))
    /\ simPc' = "done"
    /\ UNCHANGED <<simCorpus, simSolved>>

SimilarNext == ExecuteFindSimilar /\ UNCHANGED <<pathVars, quotaVars, skillVars, eduVars, progVars, callVars, partVars>>

SpecSimilar == SimilarInit /\ [][SimilarNext]_vars

\* A problems table with more matching rows than the candidates query
\* fetches: the reference (id 1), one problem with its rating and tags
\* (id 2) and FETCH_LIMIT others within 300 rating points that share a tag
\* with it.
CrowdedCorpus ==
    [p \in 1..(FETCH_LIMIT + 2) |->
        IF p <= 2 THEN [rating |-> 1200, tags |-> {"dp"}]
        ELSE IF p % 2 = 0 THEN [rating |-> 1300, tags |-> {"dp", "greedy"}]
        ELSE [rating |-> 1400, tags |-> {"dp"}]]

\* The tool call: similar problems of the reference, no user to exclude,
\* the default limit.
CrowdedArgs ==
    [problem_id : {1}, exclude_solved_by : {""}, limit : {10}]

\* The outcomes of the candidates query on a table with FETCH_LIMIT + 1
\* matching rows: every choice of the row the LIMIT leaves out (the rows
\* listed in id order).
CrowdedFetch(problem_id, exclude_solved_by) ==
    LET M == SimMatching(problem_id, exclude_solved_by)
        ids == [i \in 1..Cardinality(DOMAIN simCorpus) |-> i]
    IN  {LET Fetched(p) == p \in M /\ p # left_out
         IN  SelectSeq(ids, Fetched) : left_out \in M}

CrowdedInit ==
    /\ simCorpus = CrowdedCorpus
    /\ simSolved = {}
    /\ simArgs = <<>> /\ simScored = <<>> /\ toolResult = <<>>
    /\ simPc = "ready"
    /\ pathIdle /\ quotaIdle /\ skillIdle /\ eduIdle /\ progIdle /\ callIdle
    /\ partIdle

\* _execute_tool, tool_name "find_similar_problems", on the crowded table
ExecuteOnCrowded ==
    /\ simPc = "ready"
    /\ \E args \in CrowdedArgs :
        \E candidates \in CrowdedFetch(args.problem_id, args.exclude_solved_by) :
            /\ simArgs' = args
            /\ simScored' = RankSimilar(args.problem_id, candidates)
            /\ toolResult' =
                    find_similar_problems(args.problem_id, candidates,
                                          Min(args.limit, 20))
    /\ simPc' = "done"
    /\ UNCHANGED <<simCorpus, simSolved>>

CrowdedNext ==
    ExecuteOnCrowded /\ UNCHANGED <<pathVars, quotaVars, skillVars, eduVars, progVars, callVars, partVars>>

SpecCrowded == CrowdedInit /\ [][CrowdedNext]_vars

\* ------------------------------------------------------------ score model
\* _educational_score on two problems, as the sort of a band and the
\* sampling weights evaluate it.

SolvedCounts ==
    {0, 1, 2, 4, 9, 10, 49, 99, 999, 9999, 99998, 99999, 100000, 999999}

TagNames == <<"dp", "greedy", "math", "graphs", "trees", "strings", "geometry">>

EduProblems ==
    [rating : {None, 1200}, solved_count : SolvedCounts,
     tags : {{TagNames[i] : i \in 1..n} : n \in 0..MaxTags}]

EduInit ==
    /\ eduPair \in EduProblems \X EduProblems
    /\ eduScores = <<>>
    /\ pathIdle /\ quotaIdle /\ skillIdle /\ simIdle /\ progIdle /\ callIdle /\ partIdle

ScorePair ==
    /\ eduScores = <<>>
    /\ eduScores' = <<EducationalScoreFine(eduPair[1]),
                      EducationalScoreFine(eduPair[2])>>
    /\ UNCHANGED eduPair

EduNext == ScorePair /\ UNCHANGED <<pathVars, quotaVars, skillVars, simVars, progVars, callVars, partVars>>

SpecScore == EduInit /\ [][EduNext]_vars

\* --------------------------------------------------------- progress model
\* The requests on a created path: mark_problem_solved, skip_problem and
\* update_path of endpoints/paths.py.  A request that raises leaves the
\* rows as they were (get_db rolls the session back).

\* Responses of the three handlers.
SolvedOk == "200 Problem marked as solved"
SkippedOk == "200 Problem skipped"
UpdatedOk == "200 path updated"
PathNotFound == "404 Practice path not found"
PathNotActive == "400 Path is not active"
ProblemNotInPath == "404 Problem not found in this path not found"
ProblemLocked == "400 This problem is locked. Solve the previous problem first."
NoSuchPosition == "404 Problem at this position not found"
SkipLocked == "400 Cannot skip a locked problem"

\* The index of the first row of rows (in position order) that is in keep,
\* 0 if none: "for pp in path.path_problems: if ...: ...; break".
FirstRow(rows, keep) ==
    IF \E i \in 1..Len(rows) : rows[i] \in keep
    THEN CHOOSE i \in 1..Len(rows) :
            /\ rows[i] \in keep
            /\ \A j \in 1..(i - 1) : rows[j] \notin keep
    ELSE 0

\* The locked check that never rejects.
LockedOutNever(p, pp) == FALSE

\* The locked check that tests for UNLOCKED.
LockedOutWhenUnlocked(p, pp) == p.forced_mode /\ pp.status = UNLOCKED

\* "path.forced_mode and path_problem.status == ProblemStatus.LOCKED"
LockedOut(p, pp) == p.forced_mode /\ pp.status = LOCKED

\* "Unlock next problem in forced mode"
UnlockNext(rows, p, next_pos) ==
    LET i == FirstRow(rows, {pp \in Range(rows) :
                                pp.position = next_pos /\ pp.status = LOCKED})
    IN  IF p.forced_mode /\ i # 0
        THEN [rows EXCEPT ![i].status = UNLOCKED]
        ELSE rows

NoChange == UNCHANGED <<progPath, progProblems, progSolved>>

mark_problem_solved(path_id, problem_id) ==
    LET i == FirstRow(progProblems,
                      {pp \in Range(progProblems) : pp.problem_id = problem_id})
    IN  IF path_id # progPath.id
        THEN progResponse' = PathNotFound /\ NoChange
        ELSE IF progPath.status # ACTIVE
        THEN progResponse' = PathNotActive /\ NoChange
        ELSE IF i = 0
        THEN progResponse' = ProblemNotInPath /\ NoChange
        ELSE IF LockedOut(progPath, progProblems[i])
        THEN progResponse' = ProblemLocked /\ NoChange
        ELSE
        LET marked == [progProblems EXCEPT ![i].status = SOLVED]
            solved_count ==
                Cardinality({j \in 1..Len(marked) : marked[j].status = SOLVED})
        IN  /\ progProblems' =
                    UnlockNext(marked, progPath, progProblems[i].position + 1)
            /\ progPath' =
                    [progPath EXCEPT
                        !.current_position = solved_count,
                        !.status = IF solved_count >= progPath.total_problems
                                   THEN COMPLETED ELSE @]
            /\ progSolved' = progSolved \cup {problem_id}
            /\ progResponse' = SolvedOk

skip_problem(path_id, position) ==
    LET i == FirstRow(progProblems,
                      {pp \in Range(progProblems) : pp.position = position})
    IN  IF path_id # progPath.id
        THEN progResponse' = PathNotFound /\ NoChange
        ELSE IF i = 0
        THEN progResponse' = NoSuchPosition /\ NoChange
        ELSE IF LockedOut(progPath, progProblems[i])
        THEN progResponse' = SkipLocked /\ NoChange
        ELSE
        LET skipped == [progProblems EXCEPT ![i].status = SKIPPED]
        IN  /\ progProblems' = UnlockNext(skipped, progPath, position + 1)
            /\ progResponse' = SkippedOk
            /\ UNCHANGED <<progPath, progSolved>>

\* payload.status is None (only the name changes) or one of the three
\* values the request schema admits.
update_path(path_id, status) ==
    IF path_id # progPath.id
    THEN progResponse' = PathNotFound /\ NoChange
    ELSE /\ progPath' = IF status # "" THEN [progPath EXCEPT !.status = status]
                        ELSE progPath
         /\ progResponse' = UpdatedOk
         /\ UNCHANGED <<progProblems, progSolved>>

\* The path ids and problem ids of the requests: the path and its problems,
\* and one id of each kind that does not exist.
ProgressProblemIds(n) == [i \in 1..n |-> 10 + i]

ProgressInit ==
    /\ pathIdle /\ quotaIdle /\ skillIdle /\ simIdle /\ eduIdle /\ callIdle /\ partIdle
    /\ \E n \in 1..MaxPathLen, forced \in BOOLEAN :
        /\ progPath = [id |-> 1, forced_mode |-> forced, total_problems |-> n,
                       current_position |-> 0, status |-> ACTIVE]
        /\ progProblems = NewPathProblems(ProgressProblemIds(n))
    /\ progSolved = {}
    /\ progResponse = "none"

MarkSolved ==
    \E path_id \in {1, 2}, problem_id \in 11..(11 + MaxPathLen) :
        mark_problem_solved(path_id, problem_id)

Skip ==
    \E path_id \in {1, 2}, position \in 0..MaxPathLen :
        skip_problem(path_id, position)

UpdatePath ==
    \E path_id \in {1, 2}, status \in {"", ACTIVE, PAUSED, ABANDONED} :
        update_path(path_id, status)

ProgressNext ==
    \/ (MarkSolved /\ UNCHANGED <<pathVars, quotaVars, skillVars, simVars, eduVars, callVars, partVars>>)
    \/ (Skip /\ UNCHANGED <<pathVars, quotaVars, skillVars, simVars, eduVars, callVars, partVars>>)
    \/ (UpdatePath /\ UNCHANGED <<pathVars, quotaVars, skillVars, simVars, eduVars, callVars, partVars>>)

SpecProgress == ProgressInit /\ [][ProgressNext]_vars

\* ------------------------------------------------------ concurrency model
\* Two generate_path calls served by one process.  A call is suspended at
\* "await self._fetch_candidates"; steps 2 to 5 have no await, so they run
\* to the end once the rows have arrived.  bands, quotas and the lists
\* built from them are locals of the call; random.uniform and
\* random.shuffle draw from the generator of the random module, of which
\* the process has one.

Calls == {1, 2}

\* The problems table of the concurrency model.
ConcurrentCorpus ==
    << ProblemRows[1], ProblemRows[2], ProblemRows[3], ProblemRows[6] >>

ConcurrentConfigs ==
    {PathConfig(<<800, 900>>, m, n, {}) : m \in PathMode, n \in 1..MaxCount}

\* The random.uniform calls of _select_from_bands: _weighted_sample draws
\* once per pick, unless it returns the whole pool at once.
UniformDraws(bnds, q) ==
    LET keys == SortedKeys(DOMAIN q)
    IN  SumSeq([i \in 1..Len(keys) |->
                  IF PickCount(bnds, q, keys[i]) >= Len(Pool(bnds, q, keys[i]))
                  THEN 0 ELSE PickCount(bnds, q, keys[i])])

\* The random.shuffle calls of _order_problems: two for every group of more
\* than two selected problems of one rating; a band picks at most
\* PickCount problems, so it holds at most PickCount \div 3 such groups.
ShuffleCalls(bnds, q) ==
    LET keys == SortedKeys(DOMAIN q)
        most == SumSeq([i \in 1..Len(keys) |->
                          PickCount(bnds, q, keys[i]) \div 3])
    IN  {2 * g : g \in 0..most}

\* The values k draws consume from the generator in state `state`.
DrawnValues(state, k) == [i \in 1..k |-> state + i - 1]

ConcurrentInit ==
    /\ corpus = ConcurrentCorpus
    /\ config = <<>> /\ pc = "idle"
    /\ FreshCall
    /\ prevPath = <<>> /\ rerun = FALSE
    /\ dbPaths = <<>> /\ dbPathProblems = <<>>
    /\ response = "none"
    /\ quotaIdle /\ skillIdle /\ simIdle /\ eduIdle /\ progIdle /\ partIdle
    /\ callConfig \in [Calls -> ConcurrentConfigs]
    /\ callPc = [c \in Calls |-> "request"]
    /\ callLocals = [c \in Calls |-> <<>>]
    /\ callDraws = [c \in Calls |-> <<>>]
    /\ rngState = 0

\* The call starts and waits for the rows of its candidates query.
StartCall(c) ==
    /\ callPc[c] = "request"
    /\ callPc' = [callPc EXCEPT ![c] = "fetch"]
    /\ UNCHANGED <<callConfig, callLocals, callDraws, rngState>>

\* The rows arrive and the call runs steps 2 to 5.
FinishCall(c) ==
    /\ callPc[c] = "fetch"
    /\ \E candidates \in _fetch_candidates(callConfig[c]) :
        LET bnds == _partition_into_bands(candidates, callConfig[c])
            q == _calculate_band_quotas(bnds, callConfig[c])
        IN  \E shuffles \in ShuffleCalls(bnds, q) :
              LET k == IF candidates = <<>> THEN 0
                       ELSE UniformDraws(bnds, q) + shuffles
              IN  /\ callLocals' =
                        [callLocals EXCEPT ![c] =
                            IF candidates = <<>> THEN <<>>
                            ELSE <<bnds, q>>]
                  /\ callDraws' =
                        [callDraws EXCEPT ![c] = DrawnValues(rngState, k)]
                  /\ rngState' = rngState + k
    /\ callPc' = [callPc EXCEPT ![c] = "done"]
    /\ UNCHANGED callConfig

ConcurrentNext ==
    \/ \E c \in Calls :
        StartCall(c) /\ UNCHANGED <<pathVars, quotaVars, skillVars, simVars, eduVars, progVars, partVars>>
    \/ \E c \in Calls :
        FinishCall(c) /\ UNCHANGED <<pathVars, quotaVars, skillVars, simVars, eduVars, progVars, partVars>>

SpecConcurrent == ConcurrentInit /\ [][ConcurrentNext]_vars

\* -------------------------------------------------------- partition model
\* _partition_into_bands on its own, on any list of distinct problems of the
\* table (rated or not), with the rating_step of the settings.

PartitionInputs == UNION {Orderings(S) : S \in SUBSET ProblemIds}

PartitionInit ==
    /\ corpus \in Corpora
    /\ config = PathConfig(<<800, 900>>, LEARNING, 1, {})
    /\ pc = "idle"
    /\ FreshCall
    /\ prevPath = <<>> /\ rerun = FALSE
    /\ dbPaths = <<>> /\ dbPathProblems = <<>>
    /\ response = "none"
    /\ quotaIdle /\ skillIdle /\ simIdle /\ eduIdle /\ progIdle /\ callIdle
    /\ partProblems \in PartitionInputs
    /\ partItems = <<>>
    /\ partDone = FALSE

Partition ==
    /\ ~partDone
    /\ partItems' = PartitionItems(partProblems, config)
    /\ partDone' = TRUE
    /\ UNCHANGED partProblems

PartitionNext ==
    Partition /\ UNCHANGED <<pathVars, quotaVars, skillVars, simVars, eduVars, progVars, callVars>>

SpecPartition == PartitionInit /\ [][PartitionNext]_vars

\* ----------------------------------------------------------------- claims

Rating(p) == corpus[p].rating

\* C1: every problem generate_path returns has a rating within
\* [min_rating, max_rating], carries at least one of the requested topics
\* and is not in exclude_problem_ids; and when generation is re-run with
\* exclude_problem_ids set to the previous output, it returns none of the
\* ids returned before.
C1_PathRespectsFilters ==
    /\ \A i \in 1..Len(path) :
          /\ Rating(path[i]) # None
          /\ config.min_rating <= Rating(path[i])
          /\ Rating(path[i]) <= config.max_rating
          /\ \E j \in 1..Len(config.topics) :
                Slug(config.topics[j]) \in corpus[path[i]].tags
          /\ path[i] \notin config.exclude_problem_ids
    /\ (rerun => Range(path) \cap Range(prevPath) = {})

\* A re-run that returned problems although the previous output was
\* excluded, from a table that also holds rows the filters reject.
C1_Witness ==
    /\ pc = "done" /\ rerun /\ path # <<>> /\ prevPath # <<>>
    /\ config.exclude_problem_ids = Range(prevPath)
    /\ \E p \in DOMAIN corpus :
          Rating(p) = None \/ Rating(p) > config.max_rating
          \/ "dp" \notin corpus[p].tags

\* C2: the list generate_path returns contains no problem id twice.
C2_NoDuplicateIds ==
    \A i, j \in 1..Len(path) : i # j => path[i] # path[j]

\* A returned path of several problems, one band of which went through the
\* weighted sampler's draws.
C2_Witness ==
    /\ pc = "done" /\ Len(path) >= 2
    /\ \E k \in DOMAIN bands : quotas[k] >= 2 /\ quotas[k] < Len(bands[k])

\* C3: generate_path returns min(problem_count, number of candidates)
\* problems; with fewer candidates than problem_count (but at least one) the
\* request still succeeds, with a shorter path.
C3_PathLength ==
    (pc = "done" /\ response # BadRange) =>
        /\ Len(path) = Min(config.problem_count, Cardinality(Matching(config)))
        /\ (Matching(config) # {} => response = Created)

\* A request served with fewer candidates than problem_count.
C3_Witness ==
    /\ pc = "done" /\ response = Created
    /\ Cardinality(Matching(config)) < config.problem_count
    /\ Len(path) = Cardinality(Matching(config))

\* The quota model's inputs and result, as numbers.
QKeys == SortedKeys(DOMAIN qBands)
QSizeSum == SumSeq([i \in 1..Len(QKeys) |-> Len(qBands[QKeys[i]])])
QQuotaSum == SumSeq([i \in 1..Len(QKeys) |-> qQuotas[QKeys[i]]])
QInitialSum ==
    SumSeq([i \in 1..Len(QKeys) |-> InitialQuotas(qBands, qConfig)[QKeys[i]]])

\* C4 as stated: for any mode, problem_count >= 1 and non-empty bands, the
\* quotas sum to exactly min(problem_count, sum of the band sizes).
C4_Original ==
    qDone => QQuotaSum = Min(qConfig.problem_count, QSizeSum)

\* C4 as amended: the quotas sum to exactly min(problem_count, sum of the
\* band sizes) when problem_count is at least the number of bands, and to
\* the number of bands (one per band) when it is smaller.
C4_QuotaSum ==
    qDone =>
        QQuotaSum = IF qConfig.problem_count >= Len(QKeys)
                    THEN Min(qConfig.problem_count, QSizeSum)
                    ELSE Len(QKeys)

\* More bands than problems asked for: the surplus of one problem per band
\* is one the reconciliation cannot remove.
C4_Witness ==
    /\ qDone
    /\ qConfig.problem_count < Len(QKeys)
    /\ QInitialSum > qConfig.problem_count
    /\ QSizeSum > Len(QKeys)
    /\ QQuotaSum = Len(QKeys)

\* C5: every band's quota q satisfies 1 <= q <= band size, before the
\* reconciliation (no zero or negative share) and after it (never cut below
\* 1, never raised above the problems available).
C5_QuotaBounds ==
    qDone =>
        \A k \in DOMAIN qBands :
            /\ 1 <= InitialQuotas(qBands, qConfig)[k]
            /\ InitialQuotas(qBands, qConfig)[k] <= Len(qBands[k])
            /\ 1 <= qQuotas[k]
            /\ qQuotas[k] <= Len(qBands[k])

\* A band whose rounded share was 0 and got 1, another that the removal
\* stopped at 1, and a band that the top-up filled.
C5_Witness ==
    /\ qDone
    /\ \E k \in DOMAIN qBands :
          /\ InitialQuotasUnfloored(qBands, qConfig)[k] = 0
          /\ qQuotas[k] = 1
    /\ \E k \in DOMAIN qBands :
          /\ InitialQuotas(qBands, qConfig)[k] > 1
          /\ qQuotas[k] = 1

\* The band whose picks the variable chosen holds once the loop of
\* _select_from_bands has moved past it.
LastKey == SortedKeys(DOMAIN quotas)[bandPos]
BandDone == pc \in {"select", "done"} /\ bandPos > 0

\* C6: the problems picked from a band number exactly min(quota, band
\* size), are pairwise distinct, and all come from the top
\* min(3 * quota, band size) problems of the band by educational score;
\* every sampling weight is positive.
C6_BandPicks ==
    BandDone =>
        LET band == bands[LastKey]
            top == Min(3 * quotas[LastKey], Len(band))
        IN  /\ Len(chosen) = Min(quotas[LastKey], Len(band))
            /\ \A i, j \in 1..Len(chosen) : i # j => chosen[i] # chosen[j]
            /\ \A i \in 1..Len(chosen) : \E n \in 1..top : chosen[i] = band[n]
            /\ \A n \in 1..top : \A m \in (top + 1)..Len(band) :
                   Score(band[n]) >= Score(band[m])
            /\ \A n \in 1..Len(band) : Weight(band[n]) > 0

\* A band with more than 3 * quota problems, whose pool the sampler drew
\* from until the quota was reached.
C6_Witness ==
    /\ BandDone
    /\ Len(bands[LastKey]) > 3 * quotas[LastKey]
    /\ remaining # <<>>
    /\ Len(chosen) = quotas[LastKey]

\* C7: the path generate_path returns is in non-decreasing rating order.
C7_AscendingRatings ==
    \A i, j \in 1..Len(path) : i < j => Rating(path[i]) <= Rating(path[j])

\* A returned path where a problem precedes one of the same band with a
\* higher rating and a higher educational score: the band lists them the
\* other way round.
C7_Witness ==
    /\ pc = "done"
    /\ \E i, j \in 1..Len(path) :
          /\ i < j
          /\ Rating(path[i]) < Rating(path[j])
          /\ Score(path[i]) < Score(path[j])
          /\ BandKey(path[i], config) = BandKey(path[j], config)

\* C8: _order_problems returns a permutation of its input, whatever the
\* shuffles do: the list before the call and the list returned hold every
\* problem the same number of times.
C8_OrderIsPermutation ==
    [][(pc = "select" /\ pc' = "done") =>
          /\ Len(ordered') = Len(selected)
          /\ \A p \in Range(selected) \cup Range(ordered') :
                Count(ordered', p) = Count(selected, p)]_vars

\* A returned list of three problems of one rating that the shuffle of the
\* second half rearranged (selected holds the list as the sort left it).
C8_Witness ==
    /\ pc = "done"
    /\ Len(ordered) >= 3
    /\ ordered # selected
    /\ \A i \in 1..Len(ordered) : Rating(ordered[i]) = Rating(ordered[1])

\* C9: when no problem matches the topics, the rating range and the
\* exclusions, the request fails with the "no matching problems" error and
\* no practice_paths or path_problems row is added.
C9_NoMatchNothingPersisted ==
    [][(/\ pc = "request"
        /\ config.min_rating <= config.max_rating
        /\ Matching(config) = {}) =>
          /\ pc' = "done"
          /\ response' = NoMatch
          /\ dbPaths' = dbPaths
          /\ dbPathProblems' = dbPathProblems]_vars

\* The second request found every matching problem excluded: it failed and
\* the table still holds the first path only.
C9_Witness ==
    /\ pc = "done" /\ rerun /\ response = NoMatch
    /\ Len(dbPaths) = 1
    /\ Len(dbPathProblems) = dbPaths[1].total_problems

\* C10: _estimate_topic_skill returns an integer of [800, 3500], and 800 for
\* the empty list.
C10_EstimateInRange ==
    estimated # None =>
        /\ estimated \in 800..3500
        /\ (ratings = <<>> => estimated = 800)

\* Four solves at 800 and one at 3500: baseline 800, bonus 71, penalty 675;
\* the estimate is clamped up to 800.
C10_Witness ==
    /\ Len(ratings) = 5
    /\ Count(ratings, 800) = 4 /\ Count(ratings, 3500) = 1
    /\ estimated = 800

\* ratings holds n >= 1 copies of one rating.
Identical == ratings # <<>> /\ Cardinality(Range(ratings)) = 1

\* C11: for a history of n >= 1 identical ratings r the estimate is
\* min(3500, r + volumeBonus(n)), the volume bonus min(floor(ln(n+1)*40), 200)
\* being at least 1 and the consistency penalty 0; twenty 1200s give 1321.
C11_IdenticalRatings ==
    (estimated # None /\ Identical) =>
        LET r == ratings[1]
            n == Len(ratings)
            volumeBonus == IF n <= Len(LogTimes40) THEN Min(LogTimes40[n], 200)
                           ELSE 200
        IN  /\ volumeBonus >= 1
            /\ estimated = Min(3500, r + volumeBonus)
            /\ (r = 1200 /\ n = 20 => estimated = 1321)

\* Twenty solves at 1200.
C11_Witness ==
    /\ Identical
    /\ Len(ratings) = 20
    /\ ratings[1] = 1200
    /\ estimated = 1321

\* ratings holds nineteen solves at r and one at h, h - r >= 1000.
OneOutlier(r, h) ==
    /\ Len(ratings) = 20
    /\ Count(ratings, r) = 19 /\ Count(ratings, h) = 1
    /\ h - r >= 1000

\* C12: with nineteen solves at r and one at h, h - r >= 1000, the estimate
\* is strictly closer to r than to h.
C12_OutlierDoesNotDominate ==
    \A r, h \in HistoryRatings :
        (estimated # None /\ OneOutlier(r, h)) =>
            LET dr == IF estimated >= r THEN estimated - r ELSE r - estimated
                dh == IF estimated >= h THEN estimated - h ELSE h - estimated
            IN  dr < dh

\* One 3000 among nineteen 1200s, the 3000 not the last solve:
\* 1200 + 121 - 450 = 871.
C12_Witness ==
    /\ OneOutlier(1200, 3000)
    /\ ratings[20] = 1200
    /\ estimated = 871

\* The call has returned and its reference row exists / is missing.
RefFound == simPc = "done" /\ simArgs.problem_id \in DOMAIN simCorpus
RefMissing == simPc = "done" /\ simArgs.problem_id \notin DOMAIN simCorpus
RefTags == simCorpus[simArgs.problem_id].tags
RefRating == simCorpus[simArgs.problem_id].rating
InUnit(x) == x.den > 0 /\ x.num >= 0 /\ x.num <= x.den

\* C13: the Jaccard term is symmetric in its two tag sets, it is 0 when both
\* are empty, and the score 0.7*jaccard + 0.3*ratingSimilarity, like each of
\* its two terms, lies in [0, 1].
C13_SymmetricAndBounded ==
    RefFound =>
        \A i \in 1..Len(simScored) :
            LET e == simScored[i]
                p_tags == simCorpus[e.p].tags
            IN  /\ RatEq(e.jaccard, Jaccard(p_tags, RefTags))
                /\ InUnit(e.jaccard) /\ InUnit(e.rating_sim) /\ InUnit(e.score)
                /\ (RefTags = {} /\ p_tags = {} => e.jaccard.num = 0)

\* A candidate whose tag set is larger than the reference's and overlaps it
\* in part.
C13_Witness ==
    /\ RefFound
    /\ \E i \in 1..Len(simScored) :
        LET e == simScored[i]
            p_tags == simCorpus[e.p].tags
        IN  /\ Cardinality(p_tags) > Cardinality(RefTags)
            /\ e.jaccard.num > 0 /\ e.jaccard.num < e.jaccard.den

\* The candidate of entry e has the tag set and the rating of the reference.
SameAsReference(e) ==
    /\ simCorpus[e.p].tags = RefTags
    /\ simCorpus[e.p].rating = RefRating

ScoresOne(e) ==
    /\ RatEq(e.jaccard, Rat(1, 1))
    /\ RatEq(e.rating_sim, Rat(1, 1))
    /\ RatEq(e.score, Rat(1, 1))

\* C14 as stated: every candidate with the tag set and the rating of the
\* reference has jaccard 1, ratingSimilarity 1 and score 1.
C14_Original ==
    RefFound =>
        \A i \in 1..Len(simScored) :
            SameAsReference(simScored[i]) => ScoresOne(simScored[i])

\* C14: a candidate with the tag set and the rating of the reference has
\* jaccard 1, ratingSimilarity 1 and score 1.0, provided the tag set is not
\* empty.
C14_SameTagsAndRating ==
    RefFound =>
        \A i \in 1..Len(simScored) :
            (SameAsReference(simScored[i]) /\ RefTags # {})
                => ScoresOne(simScored[i])

C14_Witness ==
    /\ RefFound
    /\ RefTags # {}
    /\ \E i \in 1..Len(simScored) :
        SameAsReference(simScored[i]) /\ ScoresOne(simScored[i])

\* C15 as stated: a call whose reference id is not in the table returns
\* something other than the empty result.
C15_Original == RefMissing => toolResult # <<>>

\* C16: with three bands 800, 900, 1000 of one size of at least 15 and
\* problem_count = 30 the quotas are 15/10/5 in LEARNING, 5/10/15 in
\* CHALLENGE and 10/10/10 in REVISION.
C16_ThreeBandQuotas ==
    (/\ qDone
     /\ DOMAIN qBands = {800, 900, 1000}
     /\ \A k \in DOMAIN qBands : Len(qBands[k]) = Len(qBands[800])
     /\ Len(qBands[800]) >= 15
     /\ qConfig.problem_count = 30) =>
        /\ qConfig.mode = LEARNING =>
                qQuotas = [k \in {800, 900, 1000} |->
                             IF k = 800 THEN 15 ELSE IF k = 900 THEN 10 ELSE 5]
        /\ qConfig.mode = CHALLENGE =>
                qQuotas = [k \in {800, 900, 1000} |->
                             IF k = 800 THEN 5 ELSE IF k = 900 THEN 10 ELSE 15]
        /\ qConfig.mode = REVISION =>
                qQuotas = [k \in {800, 900, 1000} |-> 10]

\* LEARNING on three bands of 15 problems: the first band is used up.
C16_Witness ==
    /\ qDone
    /\ DOMAIN qBands = {800, 900, 1000}
    /\ \A k \in DOMAIN qBands : Len(qBands[k]) = 15
    /\ qConfig.problem_count = 30
    /\ qConfig.mode = LEARNING
    /\ qQuotas[800] = 15 /\ qQuotas[900] = 10 /\ qQuotas[1000] = 5

\* The two problems of the score model agree on having a rating.
SameRatedness == (eduPair[1].rating = None) <=> (eduPair[2].rating = None)
NTags(i) == Cardinality(eduPair[i].tags)

LastPath == dbPaths[Len(dbPaths)]
LastPathProblems ==
    Filter(dbPathProblems,
           {row \in Range(dbPathProblems) : row.path_id = LastPath.id})

\* C18: right after create_practice_path succeeded with n problems the path
\* is ACTIVE with current_position 0 and total_problems n, its problems are
\* at positions 0..n-1 in the generated order, and the problem at position 0
\* is UNLOCKED while every other one is LOCKED.
C18_FreshPath ==
    (pc = "done" /\ response = Created) =>
        /\ Len(path) >= 1
        /\ LastPath.status = ACTIVE
        /\ LastPath.current_position = 0
        /\ LastPath.total_problems = Len(path)
        /\ Len(LastPathProblems) = Len(path)
        /\ \A i \in 1..Len(path) :
              /\ LastPathProblems[i].problem_id = path[i]
              /\ LastPathProblems[i].position = i - 1
              /\ LastPathProblems[i].status =
                    IF i = 1 THEN UNLOCKED ELSE LOCKED

\* A path of three problems: one UNLOCKED row and two LOCKED ones.
C18_Witness ==
    /\ pc = "done" /\ response = Created
    /\ Len(path) = 3
    /\ LastPathProblems[1].status = UNLOCKED
    /\ LastPathProblems[2].status = LOCKED
    /\ LastPathProblems[3].status = LOCKED

\* The status of the problem at position p (0-based).
StatusAt(rows, p) == rows[p + 1].status

C20_Original ==
    [][\A c \in Calls :
          (callPc[c] = "fetch" /\ callPc'[c] = "fetch")
              => rngState' = rngState]_vars

\* bandSize - quota of band k before the reconciliation, and what the
\* reconciliation added to it.
Spare(k) == Len(qBands[k]) - InitialQuotas(qBands, qConfig)[k]
Extra(k) == qQuotas[k] - InitialQuotas(qBands, qConfig)[k]

\* C21: when the initial quotas sum to less than problem_count, the shortfall
\* goes to the bands in descending order of spare capacity: a band receives
\* extra problems only when every band with more spare capacity is full.
C21_Original ==
    (qDone /\ QInitialSum < qConfig.problem_count) =>
        \A a, b \in DOMAIN qBands :
            (Spare(a) < Spare(b) /\ Extra(a) > 0) =>
                qQuotas[b] = Len(qBands[b])

\* The quotas q, a function on the bands of the quota model, follow the bias
\* of the mode: non-increasing in band rating for LEARNING, non-decreasing
\* for CHALLENGE, within 1 of each other for REVISION.
FollowsBias(q) ==
    \A a, b \in DOMAIN qBands :
        /\ (qConfig.mode = LEARNING /\ a < b) => q[a] >= q[b]
        /\ (qConfig.mode = CHALLENGE /\ a < b) => q[a] <= q[b]
        /\ qConfig.mode = REVISION => q[a] - q[b] <= 1

\* C22 as stated: when every band holds at least problem_count problems,
\* the final quotas follow the bias of the mode for every number of bands
\* and every problem_count.
C22_Original ==
    qDone => FollowsBias(qQuotas)

\* C22 as amended: when every band holds at least problem_count problems,
\* the quotas before the reconciliation follow the bias of the mode for
\* every number of bands and every problem_count, and the final quotas
\* follow it when there are at most three bands or the initial quotas
\* already sum to problem_count.
C22_BiasUpToThreeBands ==
    qDone =>
        /\ FollowsBias(InitialQuotas(qBands, qConfig))
        /\ (Len(QKeys) <= 3 \/ QInitialSum = qConfig.problem_count) =>
                FollowsBias(qQuotas)

\* Three bands with room, an allocation the reconciliation topped up.
C22_Witness ==
    /\ qDone
    /\ Len(QKeys) = 3
    /\ \A k \in DOMAIN qBands : Len(qBands[k]) >= qConfig.problem_count
    /\ QInitialSum < qConfig.problem_count
    /\ qQuotas # InitialQuotas(qBands, qConfig)
    /\ FollowsBias(qQuotas)

\* The band key k is the band of a problem of the returned path.
InPath(k) == \E i \in 1..Len(path) : BandKey(path[i], config) = k

\* C23 as stated: for every config and corpus the path generate_path
\* returns holds a problem of every non-empty rating band.
C23_Original ==
    (pc = "done" /\ response = Created) =>
        \A k \in DOMAIN bands : InPath(k)

\* C23 as amended: the returned path holds a problem of every non-empty
\* rating band when problem_count is at least the number of non-empty bands.
C23_EveryBandWhenEnough ==
    (pc = "done" /\ response = Created
        /\ config.problem_count >= Cardinality(DOMAIN bands)) =>
        \A k \in DOMAIN bands : InPath(k)

\* Two bands, a request for at least two problems out of more candidates
\* than it asks for, served.
C23_Witness ==
    /\ pc = "done" /\ response = Created
    /\ Cardinality(DOMAIN bands) = 2
    /\ config.problem_count >= 2
    /\ Cardinality(Matching(config)) > config.problem_count
    /\ Len(path) = config.problem_count
    /\ \A k \in DOMAIN bands : InPath(k)

\* The first and the last position of the maximal run of equal ratings that
\* position i of the ordered list lies in.
RunStart(i) ==
    CHOOSE s \in 1..i :
        /\ \A a \in s..i : Rating(ordered[a]) = Rating(ordered[i])
        /\ (s > 1 => Rating(ordered[s - 1]) # Rating(ordered[i]))
RunEnd(i) ==
    CHOOSE e \in i..Len(ordered) :
        /\ \A a \in i..e : Rating(ordered[a]) = Rating(ordered[i])
        /\ (e < Len(ordered) => Rating(ordered[e + 1]) # Rating(ordered[i]))

\* C24: in the list _order_problems returns, a run of one or two problems of
\* equal rating is in descending order of educational score; in a run of
\* m > 2 the m \div 2 problems the sort put first (the highest scored) all
\* come before the others, whatever the shuffles did; and every problem
\* stays within the run the sort put it in (selected holds the sorted list).
C24_RunsKeepHalves ==
    (pc = "done" /\ response = Created) =>
        \A i \in 1..Len(ordered) :
            LET s == RunStart(i)
                e == RunEnd(i)
                mid == (e - s + 1) \div 2
            IN  /\ {ordered[a] : a \in s..e} = {selected[a] : a \in s..e}
                /\ Rating(selected[i]) = Rating(ordered[i])
                /\ IF e - s + 1 <= 2
                   THEN \A a, b \in s..e :
                            a < b => Score(ordered[a]) >= Score(ordered[b])
                   ELSE /\ {ordered[a] : a \in s..(s + mid - 1)}
                            = {selected[a] : a \in s..(s + mid - 1)}
                        /\ \A a \in s..(s + mid - 1), b \in (s + mid)..e :
                               Score(ordered[a]) >= Score(ordered[b])

\* A run of three problems of one rating and unequal scores that the
\* shuffle of the second half rearranged, so that the list is no longer in
\* descending score order.
C24_Witness ==
    /\ pc = "done" /\ response = Created
    /\ \E i \in 1..Len(ordered) :
          /\ RunEnd(i) - RunStart(i) + 1 = 3
          /\ i = RunStart(i)
          /\ ordered[i + 1] = selected[i + 2]
          /\ Score(ordered[i + 1]) < Score(ordered[i + 2])

\* The position of problem p in the list s.
PosIn(s, p) == CHOOSE i \in 1..Len(s) : s[i] = p

\* C25: _partition_into_bands puts every rated problem of its input in
\* exactly one band, once, the band whose key is the multiple of the rating
\* step with key <= rating < key + step; it puts no unrated problem and no
\* problem from elsewhere in any band; no band is empty; the bands come in
\* ascending key order; and each band is in descending order of educational
\* score, problems of equal score in their input order.
C25_PartitionIntoBands ==
    partDone =>
        LET step == config.rating_step
            n == Len(partItems)
            Key(i) == partItems[i][1]
            Band(i) == partItems[i][2]
        IN  /\ \A p \in Range(partProblems) :
                  IF Rating(p) = None
                  THEN \A i \in 1..n : p \notin Range(Band(i))
                  ELSE \E i \in 1..n :
                          /\ Count(Band(i), p) = 1
                          /\ \A j \in 1..n : j # i => p \notin Range(Band(j))
                          /\ Key(i) % step = 0
                          /\ Key(i) <= Rating(p)
                          /\ Rating(p) < Key(i) + step
            /\ \A i \in 1..n :
                  /\ Band(i) # <<>>
                  /\ Range(Band(i)) \subseteq Range(partProblems)
                  /\ \A j \in 1..n : i < j => Key(i) < Key(j)
                  /\ \A a, b \in 1..Len(Band(i)) :
                        a < b =>
                          \/ Score(Band(i)[a]) > Score(Band(i)[b])
                          \/ /\ Score(Band(i)[a]) = Score(Band(i)[b])
                             /\ PosIn(partProblems, Band(i)[a])
                                  < PosIn(partProblems, Band(i)[b])

\* An input with an unrated problem, problems of two bands listed with the
\* higher band first, a rating that is not a multiple of the step, and two
\* problems of equal score in one band.
C25_Witness ==
    /\ partDone
    /\ \E p \in Range(partProblems) : Rating(p) = None
    /\ Len(partItems) = 2
    /\ Rating(partProblems[1]) # None
    /\ Rating(partProblems[1]) >= partItems[2][1]
    /\ \E p \in Range(partItems[1][2]) : Rating(p) # partItems[1][1]
    /\ \E i \in 1..2 : \E a, b \in 1..Len(partItems[i][2]) :
          /\ a < b
          /\ Score(partItems[i][2][a]) = Score(partItems[i][2][b])

\* How far along locked -> unlocked -> attempted -> {solved | skipped} a
\* status is.
StatusRank(s) ==
    CASE s = LOCKED -> 0
      [] s = UNLOCKED -> 1
      [] s = ATTEMPTED -> 2
      [] s \in {SOLVED, SKIPPED} -> 3

\* C26: under mark-solved and skip requests a problem's status only moves
\* forward along locked -> unlocked -> attempted -> {solved | skipped}; no
\* problem goes from LOCKED directly to SOLVED or SKIPPED, and SOLVED and
\* SKIPPED are terminal.
C26_Original ==
    [][\A p \in 0..(Len(progProblems) - 1) :
          LET old == StatusAt(progProblems, p)
              new == StatusAt(progProblems', p)
          IN  /\ StatusRank(new) >= StatusRank(old)
              /\ old = LOCKED => new \notin {SOLVED, SKIPPED}
              /\ old \in {SOLVED, SKIPPED} => new = old]_vars

\* The responses that are bad-request errors (BadRequestException).
BadRequest == {PathNotActive, ProblemLocked, SkipLocked}

\* The rows of the path with the given problem, with the given position.
RowsOfProblem(problem_id) ==
    {i \in 1..Len(progProblems) : progProblems[i].problem_id = problem_id}
RowsAtPosition(position) ==
    {i \in 1..Len(progProblems) : progProblems[i].position = position}

\* C27: in a forced-mode path, a mark-solved request for a problem whose
\* status is LOCKED and a skip request for a position whose status is LOCKED
\* are answered with a bad-request error and leave every problem status and
\* the path's current_position and status unchanged.
C27_LockedRequestRejected ==
    [][progPath.forced_mode =>
        /\ \A problem_id \in 11..(11 + MaxPathLen) :
              (/\ \E i \in RowsOfProblem(problem_id) :
                      progProblems[i].status = LOCKED
               /\ mark_problem_solved(progPath.id, problem_id))
              => /\ progResponse' \in BadRequest
                 /\ UNCHANGED <<progPath, progProblems>>
        /\ \A position \in 0..MaxPathLen :
              (/\ \E i \in RowsAtPosition(position) :
                      progProblems[i].status = LOCKED
               /\ skip_problem(progPath.id, position))
              => /\ progResponse' \in BadRequest
                 /\ UNCHANGED <<progPath, progProblems>>
        /\ \A p \in 0..(Len(progProblems) - 1) :
              StatusAt(progProblems, p) = LOCKED
              => StatusAt(progProblems', p) \in {LOCKED, UNLOCKED}]_vars

\* A forced-mode path of three problems, the first solved, after a request
\* for the LOCKED third one was rejected.
C27_Witness ==
    /\ progPath # <<>>
    /\ progPath.forced_mode
    /\ Len(progProblems) = 3
    /\ StatusAt(progProblems, 0) = SOLVED
    /\ StatusAt(progProblems, 1) = UNLOCKED
    /\ StatusAt(progProblems, 2) = LOCKED
    /\ progPath.current_position = 1
    /\ progResponse \in {ProblemLocked, SkipLocked}

\* C28: in every state reachable by mark-solved, skip and update-path
\* requests, a path whose status is COMPLETED has every one of its problems
\* in status SOLVED.
C28_Original ==
    (progPath # <<>> /\ progPath.status = COMPLETED) =>
        \A i \in 1..Len(progProblems) : progProblems[i].status = SOLVED

\* The composite score of problem p against the reference of the call.
ScoreAgainstRef(p) ==
    SimilarityScore(Jaccard(RefTags, simCorpus[p].tags),
                    RatingSim(OrDefault(RefRating),
                              OrDefault(simCorpus[p].rating)))

\* C29: find_similar_problems returns, in non-increasing score order, the
\* best problems among all the eligible ones: no eligible problem that it
\* leaves out has a strictly higher score than one it returns, however many
\* eligible problems there are.
C29_Original ==
    RefFound =>
        LET eligible ==
                SimMatching(simArgs.problem_id, simArgs.exclude_solved_by)
            returned == {toolResult[i].id : i \in 1..Len(toolResult)}
        IN  /\ \A i, j \in 1..Len(toolResult) :
                  i < j => ~RatLess(ScoreAgainstRef(toolResult[i].id),
                                    ScoreAgainstRef(toolResult[j].id))
            /\ \A e \in eligible \ returned : \A r \in returned :
                  ~RatLess(ScoreAgainstRef(r), ScoreAgainstRef(e))

\* The step appends a rating to the list of the topic.
OneMoreSolve == ratings' = Append(ratings, ratings'[Len(ratings')])

\* C30 as stated: one more solved problem, of any rating, never lowers the
\* estimate: estimate(L + [r]) >= estimate(L).
C30_Original ==
    [][(Len(ratings') = Len(ratings) + 1 /\ OneMoreSolve)
          => estimated' >= _estimate_topic_skill(ratings)]_vars

\* C30 as amended: one more solved problem does not lower the estimate when
\* it is the first of the topic or its rating equals the highest rating
\* solved so far.
C30_MonotoneAtHighest ==
    [][(/\ Len(ratings') = Len(ratings) + 1
        /\ OneMoreSolve
        /\ \/ ratings = <<>>
           \/ /\ ratings'[Len(ratings')] \in Range(ratings)
              /\ \A i \in 1..Len(ratings) :
                    ratings[i] <= ratings'[Len(ratings')])
          => estimated' >= _estimate_topic_skill(ratings)]_vars

\* A list of unequal ratings whose last solve repeats the highest rating
\* solved before it, and raised the estimate.
C30_Witness ==
    /\ Len(ratings) >= 3
    /\ LET L == SubSeq(ratings, 1, Len(ratings) - 1)
           r == ratings[Len(ratings)]
       IN  /\ r \in Range(L)
           /\ \A i \in 1..Len(L) : L[i] <= r
           /\ \E i \in 1..Len(L) : L[i] < r
           /\ estimated = _estimate_topic_skill(ratings)
           /\ estimated > _estimate_topic_skill(L)
====
